---------------------------- MODULE Spec2Model ----------------------------
(***************************************************************************)
(* Model of the rule-based form evaluator (src/src/evaluator.py), of the   *)
(* pose extractor's frame substitution (src/src/pose_detector.py) and of   *)
(* the per-frame loop of src/src/run_video.py.                             *)
(*                                                                         *)
(* Numbers.  Coordinates are fixed-point: one unit is 1/25 of the image    *)
(* (0.04), so the code's 0.08 is 2 units and 0.12 is 3 units.  An angle is *)
(* a real number of degrees; the model keeps it as the pair of its floor   *)
(* and its ceiling in whole degrees, [fl |-> f, cl |-> c].  Against a      *)
(* whole-degree threshold t this is exact:  ang <= t  iff  cl <= t,  and   *)
(* ang >= t  iff  fl >= t.  The angle 0.0 is [fl |-> 0, cl |-> 0].         *)
(* The 'message' strings of the verdicts are formatted copies of the       *)
(* numeric fields and are left out.                                        *)
(***************************************************************************)
EXTENDS Integers, Sequences, FiniteSets, TLC

VARIABLES
    pc,        \* per caller: where it is in the loop of process_video
    arr,       \* per caller: the landmarks array the extractor yielded
    lm,        \* per caller: the copy handed to evaluate_frame
    res,       \* per caller: evaluate_frame's local dict `res` / its result
    in_a, in_b, in_c,  \* the three points given to _angle_between
    out_ang,   \* what _angle_between returned ("none" before the call)
    in_values, \* the series given to smooth_series
    in_window, \* its window
    out_smooth \* what smooth_series returned ("none" before the call)

vars == <<pc, arr, lm, res, in_a, in_b, in_c, out_ang,
          in_values, in_window, out_smooth>>

(***************************************************************************)
(* Bounds of the model.                                                    *)
(***************************************************************************)
MaxCoord   == 3    \* free coordinates range over 0..MaxCoord units
MaxRows    == 34   \* frames have 0..MaxRows rows
NumCallers == 2    \* concurrent callers of evaluate_frame
MaxLen     == 3    \* smooth_series: length of the series
MaxWindow  == 4    \* smooth_series: window
MaxValue   == 2    \* smooth_series: values range over 0..MaxValue

Grid   == 0..MaxCoord
Points == Grid \X Grid

(***************************************************************************)
(* numpy's arccos followed by degrees, on the cosine dot/sqrt(nn).         *)
(***************************************************************************)
CosScale == 100000

\* Cos2Table[d+1] = cos(d degrees)^2 * CosScale, rounded, for d = 0..90
Cos2Table ==
    << 100000, 99970, 99878, 99726, 99513, 99240, 98907, 98515, 98063, 97553,
       96985, 96359, 95677, 94940, 94147, 93301, 92402, 91452, 90451, 89401,
       88302, 87157, 85967, 84733, 83457, 82139, 80783, 79389, 77960, 76496,
       75000, 73474, 71919, 70337, 68730, 67101, 65451, 63782, 62096, 60396,
       58682, 56959, 55226, 53488, 51745, 50000, 48255, 46512, 44774, 43041,
       41318, 39604, 37904, 36218, 34549, 32899, 31270, 29663, 28081, 26526,
       25000, 23504, 22040, 20611, 19217, 17861, 16543, 15267, 14033, 12843,
       11698, 10599, 9549, 8548, 7598, 6699, 5853, 5060, 4323, 3641,
       3015, 2447, 1937, 1485, 1093, 760, 487, 274, 122, 30, 0 >>

\* np.clip(cosang, -1.0, 1.0), on the squared cosine sq/nn
Clip(sq, nn) == IF sq > nn THEN nn ELSE sq

\* the largest d in lo..hi with cos(d)^2 >= sq/nn, i.e. d <= arccos(sqrt(sq/nn))
RECURSIVE AcuteFloor(_, _, _, _)
AcuteFloor(sq, nn, lo, hi) ==
    IF lo = hi THEN lo
    ELSE LET mid == (lo + hi + 1) \div 2
         IN  IF Cos2Table[mid + 1] * nn >= sq * CosScale
             THEN AcuteFloor(sq, nn, mid, hi)
             ELSE AcuteFloor(sq, nn, lo, mid - 1)

\* np.degrees(np.arccos(np.clip(dot / denom, -1, 1))) where denom^2 = nn > 0
ArccosDegrees(dot, nn) ==
    LET sq    == Clip(dot * dot, nn)
        f     == AcuteFloor(sq, nn, 0, 90)
        exact == Cos2Table[f + 1] * nn = sq * CosScale
        cl0   == IF exact THEN f ELSE f + 1
    IN  IF dot >= 0 THEN [fl |-> f, cl |-> cl0]
                    ELSE [fl |-> 180 - cl0, cl |-> 180 - f]

Zero == [fl |-> 0, cl |-> 0]      \* the float 0.0 as an angle

\* comparisons of an angle with a whole number of degrees
AngLE(x, t) == x.cl <= t
AngGE(x, t) == x.fl >= t

Sub(p, q)  == <<p[1] - q[1], p[2] - q[2]>>
Add(p, q)  == <<p[1] + q[1], p[2] + q[2]>>
Dot(p, q)  == p[1] * q[1] + p[2] * q[2]
Norm2(p)   == Dot(p, p)           \* np.linalg.norm(p) squared

\* _angle_between without its zero-denominator guard
AngleBetweenNoGuard(a, b, c) ==
    LET v1 == Sub(a, b)
        v2 == Sub(c, b)
    IN  ArccosDegrees(Dot(v1, v2), Norm2(v1) * Norm2(v2))

_angle_between(a, b, c) ==
    LET v1 == Sub(a, b)
        v2 == Sub(c, b)
        nn == Norm2(v1) * Norm2(v2)      \* denom squared
    IN  IF nn = 0 THEN Zero
        ELSE ArccosDegrees(Dot(v1, v2), nn)

(***************************************************************************)
(* Frames.  A frame is a numpy array of shape (n, 3): a function from      *)
(* 0..n-1 to rows <<x, y, visibility>>.  An index outside 0..n-1 raises    *)
(* IndexError (the evaluator uses no negative index).                      *)
(***************************************************************************)
IndexError == [exc |-> "IndexError"]
Raised(r)  == "exc" \in DOMAIN r

Has(frame_landmarks, idxs) == idxs \subseteq DOMAIN frame_landmarks

\* frame_landmarks[i, :2]
XY(frame_landmarks, i) == <<frame_landmarks[i][1], frame_landmarks[i][2]>>

Abs(x) == IF x < 0 THEN -x ELSE x

\* res.update(d): the keys of d replace those of res
Update(r, d) == d @@ r

(***************************************************************************)
(* evaluate_bicep_curl                                                     *)
(***************************************************************************)
\* the docstring's 40..160 band in place of the code's 30..170
BicepSide40to160(frame_landmarks, sh, el, wr) ==
    LET ang == _angle_between(XY(frame_landmarks, sh), XY(frame_landmarks, el),
                              XY(frame_landmarks, wr))
    IN  [angle |-> ang, ok |-> AngGE(ang, 40) /\ AngLE(ang, 160)]

\* one pass of the loop over ['left', 'right']
BicepSide(frame_landmarks, sh, el, wr) ==
    LET shoulder == XY(frame_landmarks, sh)
        elbow    == XY(frame_landmarks, el)
        wrist    == XY(frame_landmarks, wr)
        ang      == _angle_between(shoulder, elbow, wrist)
        pass_ok  == AngGE(ang, 30) /\ AngLE(ang, 170)
    IN  [angle |-> ang, ok |-> pass_ok]

evaluate_bicep_curl(frame_landmarks) ==
    IF ~Has(frame_landmarks, {11, 13, 15, 12, 14, 16}) THEN IndexError
    ELSE "bicep_curl" :> [left  |-> BicepSide(frame_landmarks, 11, 13, 15),
                          right |-> BicepSide(frame_landmarks, 12, 14, 16)]

(***************************************************************************)
(* evaluate_lateral_raise                                                  *)
(***************************************************************************)
tol == 2     \* 0.08 in units of 0.04

LateralSide(frame_landmarks, sh, el, wr) ==
    LET shoulder == XY(frame_landmarks, sh)
        elbow    == XY(frame_landmarks, el)
        wrist    == XY(frame_landmarks, wr)
        dy       == Abs(wrist[2] - shoulder[2])
        el_angle == _angle_between(shoulder, elbow, wrist)
        ok       == dy <= tol /\ AngGE(el_angle, 150)
    IN  [dy |-> dy, elbow_angle |-> el_angle, ok |-> ok]

evaluate_lateral_raise(frame_landmarks) ==
    IF ~Has(frame_landmarks, {11, 13, 15, 12, 14, 16}) THEN IndexError
    ELSE "lateral_raise" :> [left  |-> LateralSide(frame_landmarks, 11, 13, 15),
                             right |-> LateralSide(frame_landmarks, 12, 14, 16)]

(***************************************************************************)
(* The torso tilt that evaluate_back_posture and evaluate_squat both       *)
(* compute inline: the angle between mid_sh - mid_hip and vert = (0, -1).  *)
(* The midpoints are halves; the model uses twice the vector, which has    *)
(* the same direction and is zero exactly when the vector is.              *)
(***************************************************************************)
\* the tilt without its zero-denominator guard
TorsoTiltNoGuard(left_sh, right_sh, left_hip, right_hip) ==
    LET vec2  == Sub(Add(left_sh, right_sh), Add(left_hip, right_hip))
        vert  == <<0, -1>>
    IN  ArccosDegrees(Dot(vec2, vert), Norm2(vec2) * Norm2(vert))

TorsoTilt(left_sh, right_sh, left_hip, right_hip) ==
    LET vec2  == Sub(Add(left_sh, right_sh), Add(left_hip, right_hip))
        vert  == <<0, -1>>
        nn    == Norm2(vec2) * Norm2(vert)
    IN  IF nn = 0 THEN Zero
        ELSE ArccosDegrees(Dot(vec2, vert), nn)

(***************************************************************************)
(* evaluate_back_posture                                                   *)
(***************************************************************************)
\* the division by a zero denominator raising instead of being guarded
BackPostureDivisionRaises(frame_landmarks) ==
    IF ~Has(frame_landmarks, {11, 12, 23, 24}) THEN IndexError
    ELSE IF Add(XY(frame_landmarks, 11), XY(frame_landmarks, 12))
            = Add(XY(frame_landmarks, 23), XY(frame_landmarks, 24))
         THEN [exc |-> "ZeroDivisionError"]
         ELSE LET ang == TorsoTilt(XY(frame_landmarks, 11), XY(frame_landmarks, 12),
                                   XY(frame_landmarks, 23), XY(frame_landmarks, 24))
              IN  "back_posture" :> [angle_deg |-> ang, ok |-> AngLE(ang, 12)]

evaluate_back_posture(frame_landmarks) ==
    IF ~Has(frame_landmarks, {11, 12, 23, 24}) THEN IndexError
    ELSE LET ang == TorsoTilt(XY(frame_landmarks, 11), XY(frame_landmarks, 12),
                              XY(frame_landmarks, 23), XY(frame_landmarks, 24))
             ok  == AngLE(ang, 12)
         IN  "back_posture" :> [angle_deg |-> ang, ok |-> ok]

(***************************************************************************)
(* evaluate_squat                                                          *)
(***************************************************************************)
knee_depth_thresh   == 100
torso_tilt_thresh   == 25
knee_over_tolerance == 3     \* 0.12 in units of 0.04

\* the verdict with the torso condition left out of the per-side flags
SquatVerdictNoTorso(left_knee_ang, right_knee_ang, torso_angle, left_knee_over, right_knee_over) ==
    LET left_ok  == /\ AngLE(left_knee_ang, knee_depth_thresh)
                    /\ Abs(left_knee_over) <= knee_over_tolerance
        right_ok == /\ AngLE(right_knee_ang, knee_depth_thresh)
                    /\ Abs(right_knee_over) <= knee_over_tolerance
    IN  [left  |-> [knee_angle |-> left_knee_ang, knee_over |-> left_knee_over,
                    ok |-> left_ok],
         right |-> [knee_angle |-> right_knee_ang, knee_over |-> right_knee_over,
                    ok |-> right_ok],
         torso_tilt |-> torso_angle,
         ok |-> left_ok /\ right_ok]

\* lines 153-171: the thresholds, the flags and the result dict
SquatVerdict(left_knee_ang, right_knee_ang, torso_angle, left_knee_over, right_knee_over) ==
    LET left_ok  == /\ AngLE(left_knee_ang, knee_depth_thresh)
                    /\ Abs(left_knee_over) <= knee_over_tolerance
                    /\ AngLE(torso_angle, torso_tilt_thresh)
        right_ok == /\ AngLE(right_knee_ang, knee_depth_thresh)
                    /\ Abs(right_knee_over) <= knee_over_tolerance
                    /\ AngLE(torso_angle, torso_tilt_thresh)
    IN  [left  |-> [knee_angle |-> left_knee_ang, knee_over |-> left_knee_over,
                    ok |-> left_ok],
         right |-> [knee_angle |-> right_knee_ang, knee_over |-> right_knee_over,
                    ok |-> right_ok],
         torso_tilt |-> torso_angle,
         ok |-> left_ok /\ right_ok]

evaluate_squat(frame_landmarks) ==
    IF ~Has(frame_landmarks, {23, 24, 25, 26, 27, 28, 11, 12}) THEN IndexError
    ELSE LET left_hip    == XY(frame_landmarks, 23)
             right_hip   == XY(frame_landmarks, 24)
             left_knee   == XY(frame_landmarks, 25)
             right_knee  == XY(frame_landmarks, 26)
             left_ankle  == XY(frame_landmarks, 27)
             right_ankle == XY(frame_landmarks, 28)
             left_knee_ang  == _angle_between(left_hip, left_knee, left_ankle)
             right_knee_ang == _angle_between(right_hip, right_knee, right_ankle)
             torso_angle == TorsoTilt(XY(frame_landmarks, 11),
                                      XY(frame_landmarks, 12), left_hip, right_hip)
             left_knee_over  == left_knee[1] - left_ankle[1]
             right_knee_over == right_knee[1] - right_ankle[1]
         IN  "squat" :> SquatVerdict(left_knee_ang, right_knee_ang, torso_angle,
                                     left_knee_over, right_knee_over)

(***************************************************************************)
(* evaluate_frame: the three unguarded rules, then the squat rule inside   *)
(* try/except.  The result is the dict, or the exception that escapes.     *)
(***************************************************************************)
EmptyDict == <<>>
SquatError == "squat" :> [error |-> "could not evaluate squat"]

\* lines 182-186: try: res.update(evaluate_squat(...)) except Exception: ...
GuardedSquat(frame_landmarks) ==
    LET r == evaluate_squat(frame_landmarks)
    IN  IF Raised(r) THEN SquatError ELSE r

evaluate_frame(frame_landmarks) ==
    LET r1 == evaluate_bicep_curl(frame_landmarks)
        r2 == evaluate_lateral_raise(frame_landmarks)
        r3 == evaluate_back_posture(frame_landmarks)
    IN  IF Raised(r1) THEN r1
        ELSE IF Raised(r2) THEN r2
        ELSE IF Raised(r3) THEN r3
        ELSE Update(Update(Update(Update(EmptyDict, r1), r2), r3),
                    GuardedSquat(frame_landmarks))

(***************************************************************************)
(* Input frames.  PoseFrame builds a frame of n rows from a standing pose  *)
(* (units of 0.04; y grows downward): the left elbow, both wrists and both *)
(* knees are free, and `lean` shifts the two shoulders sideways.  Rows     *)
(* beyond the 33 landmarks of a pose are zero.                             *)
(***************************************************************************)
PoseRow(i, el, wl, wr, kl, kr, lean) ==
    CASE i = 11 -> <<3 + lean, 1, 1>>          \* left shoulder
      [] i = 12 -> <<1 + lean, 1, 1>>          \* right shoulder
      [] i = 13 -> <<el[1], el[2], 1>>         \* left elbow
      [] i = 14 -> <<1, 2, 1>>                 \* right elbow
      [] i = 15 -> <<wl[1], wl[2], 1>>         \* left wrist
      [] i = 16 -> <<wr[1], wr[2], 1>>         \* right wrist
      [] i = 23 -> <<3, 4, 1>>                 \* left hip
      [] i = 24 -> <<1, 4, 1>>                 \* right hip
      [] i = 25 -> <<kl[1], 4 + kl[2], 1>>     \* left knee
      [] i = 26 -> <<kr[1], 4 + kr[2], 1>>     \* right knee
      [] i = 27 -> <<4, 8, 1>>                 \* left ankle
      [] i = 28 -> <<0, 8, 1>>                 \* right ankle
      [] i > 32 -> <<0, 0, 0>>
      [] OTHER  -> <<2, 0, 1>>

PoseFrame(n, el, wl, wr, kl, kr, lean) ==
    [i \in 0..(n - 1) |-> PoseRow(i, el, wl, wr, kl, kr, lean)]

\* np.zeros((n, 3), dtype=float)
np_zeros(n) == [i \in 0..(n - 1) |-> <<0, 0, 0>>]

StandElbow == <<3, 2>>      \* left elbow under the left shoulder
StandWrist == <<3, 3>>      \* arm hanging straight down
StandKneeL == <<3, 2>>      \* knees under the hips
StandKneeR == <<1, 2>>

ArmFrames == { PoseFrame(33, el, wl, wr, StandKneeL, StandKneeR, 0) :
                   el \in Points, wl \in Points, wr \in Points }
LegFrames == { PoseFrame(33, StandElbow, StandWrist, StandWrist, kl, kr, lean) :
                   kl \in Points, kr \in Points, lean \in Grid }
SizedFrames == { PoseFrame(n, StandElbow, StandWrist, <<0, 3>>, <<1, 0>>, <<3, 1>>, 0) :
                   n \in 0..MaxRows }
               \cup { np_zeros(n) : n \in 0..MaxRows }

\* every array handed to evaluate_frame by a direct caller
Frames == ArmFrames \cup LegFrames \cup SizedFrames

\* what the pose model can return for a video frame: 33 landmarks, or nothing
Detections ==
    { PoseFrame(33, StandElbow, StandWrist, StandWrist, StandKneeL, StandKneeR, 0),
      PoseFrame(33, StandElbow, <<3, 3>>, <<0, 3>>, <<1, 0>>, <<3, 1>>, 0),
      PoseFrame(33, <<2, 1>>, <<0, 1>>, <<2, 1>>, <<0, 1>>, <<3, 3>>, 2) }

\* results of pose.process: results.pose_landmarks is a landmark list or None
PoseResults == { [pose_landmarks |-> TRUE, landmark |-> d] : d \in Detections }
               \cup { [pose_landmarks |-> FALSE] }

\* extract_poses_from_video, lines 33-37: the array yielded for one frame
ExtractedArray(results) ==
    IF results.pose_landmarks THEN results.landmark ELSE np_zeros(33)

(***************************************************************************)
(* smooth_series.  An array is a function from 0..n-1.  The kernel         *)
(* np.ones(window) / window has the entries 1/window; a smoothed value is  *)
(* kept as the fraction [num |-> sum of products, den |-> window].         *)
(***************************************************************************)
ValueError == [exc |-> "ValueError"]
Size(x)    == Cardinality(DOMAIN x)
Min(x, y)  == IF x <= y THEN x ELSE y
Max(x, y)  == IF x >= y THEN x ELSE y

\* sum of x[j] * k[m - j] over the j where both indices exist
RECURSIVE ConvSum(_, _, _, _)
ConvSum(x, k, m, j) ==
    IF j < 0 THEN 0
    ELSE (IF (m - j) \in DOMAIN k THEN x[j] * k[m - j] ELSE 0)
         + ConvSum(x, k, m, j - 1)

\* entry m of the full discrete convolution of x and k
FullConv(x, k, m) == ConvSum(x, k, m, Size(x) - 1)

\* the slice that mode='valid' would start from, taken at the output length of 'same'
ConvolveNoCentre(x, window) ==
    IF Size(x) = 0 THEN ValueError
    ELSE LET ones == [k \in 0..(window - 1) |-> 1]
         IN  [i \in 0..(Max(Size(x), window) - 1) |->
                 [num |-> FullConv(x, ones, i + Min(Size(x), window) - 1),
                  den |-> window]]

\* np.convolve(x, np.ones(window) / window, mode='same'): the centre of the
\* full convolution, as long as the longer argument
np_convolve_same(x, window) ==
    IF Size(x) = 0 THEN ValueError
    ELSE LET ones == [k \in 0..(window - 1) |-> 1]
             n1   == Max(Size(x), window)
             n2   == Min(Size(x), window)
             off  == (n2 - 1) \div 2
         IN  [i \in 0..(n1 - 1) |->
                 [num |-> FullConv(x, ones, i + off), den |-> window]]

smooth_series(values, window) ==
    IF window <= 1 THEN values
    ELSE np_convolve_same(values, window)

(***************************************************************************)
(* State.                                                                  *)
(***************************************************************************)
None      == [none |-> TRUE]
Callers   == 1..NumCallers
NoCallers == [p \in {} |-> None]

IdleAngle  == /\ in_a = <<0, 0>> /\ in_b = <<0, 0>> /\ in_c = <<0, 0>>
              /\ out_ang = None
IdleSmooth == in_values = <<>> /\ in_window = 0 /\ out_smooth = None
IdleFrames == arr = NoCallers /\ lm = NoCallers /\ res = NoCallers

(***************************************************************************)
(* Spec: NumCallers callers run the loop body of process_video side by     *)
(* side; evaluate_frame advances one rule at a time.                       *)
(***************************************************************************)
Init ==
    /\ pc  = [p \in Callers |-> "idle"]
    /\ arr = [p \in Callers |-> None]
    /\ lm  = [p \in Callers |-> None]
    /\ res = [p \in Callers |-> None]
    /\ IdleAngle /\ IdleSmooth

\* extract_poses_from_video yields the next FramePose
ExtractPose(p) ==
    /\ pc[p] = "idle"
    /\ \E results \in PoseResults :
           arr' = [arr EXCEPT ![p] = ExtractedArray(results)]
    /\ pc' = [pc EXCEPT ![p] = "extracted"]
    /\ UNCHANGED <<lm, res, in_a, in_b, in_c, out_ang,
                   in_values, in_window, out_smooth>>

\* lm = frame_pose.landmarks.copy(); evaluate_frame(lm) starts with res = {}
CallEvaluateFrame(p) ==
    /\ pc[p] = "extracted"
    /\ lm'  = [lm EXCEPT ![p] = arr[p]]
    /\ res' = [res EXCEPT ![p] = EmptyDict]
    /\ pc'  = [pc EXCEPT ![p] = "bicep"]
    /\ UNCHANGED <<arr, in_a, in_b, in_c, out_ang,
                   in_values, in_window, out_smooth>>

\* a rule's dict written into every caller's res, as a dict shared by the calls would be
RuleStepShared(p, at, r, next) ==
    /\ pc[p] = at
    /\ IF Raised(r)
       THEN /\ res' = [res EXCEPT ![p] = r]
            /\ pc'  = [pc EXCEPT ![p] = "raised"]
       ELSE /\ res' = [q \in Callers |->
                         IF pc[q] \in {"idle", "extracted"} THEN res[q]
                         ELSE Update(res[q], r)]
            /\ pc'  = [pc EXCEPT ![p] = next]
    /\ UNCHANGED <<arr, lm, in_a, in_b, in_c, out_ang,
                   in_values, in_window, out_smooth>>

\* res.update(r) for the rule result r, or r's exception leaving evaluate_frame
RuleStep(p, at, r, next) ==
    /\ pc[p] = at
    /\ IF Raised(r)
       THEN /\ res' = [res EXCEPT ![p] = r]
            /\ pc'  = [pc EXCEPT ![p] = "raised"]
       ELSE /\ res' = [res EXCEPT ![p] = Update(res[p], r)]
            /\ pc'  = [pc EXCEPT ![p] = next]
    /\ UNCHANGED <<arr, lm, in_a, in_b, in_c, out_ang,
                   in_values, in_window, out_smooth>>

StepBicepCurl(p)    == RuleStep(p, "bicep", evaluate_bicep_curl(lm[p]), "lateral")
StepLateralRaise(p) == RuleStep(p, "lateral", evaluate_lateral_raise(lm[p]), "back")
StepBackPosture(p)  == RuleStep(p, "back", evaluate_back_posture(lm[p]), "squat")
StepSquat(p)        == RuleStep(p, "squat", GuardedSquat(lm[p]), "done")

\* the rest of the loop body: annotate, write, collect the row; next frame
FinishFrame(p) ==
    /\ pc[p] = "done"
    /\ pc'  = [pc EXCEPT ![p] = "idle"]
    /\ arr' = [arr EXCEPT ![p] = None]
    /\ lm'  = [lm EXCEPT ![p] = None]
    /\ res' = [res EXCEPT ![p] = None]
    /\ UNCHANGED <<in_a, in_b, in_c, out_ang, in_values, in_window, out_smooth>>

Next ==
    \E p \in Callers :
        \/ ExtractPose(p)
        \/ CallEvaluateFrame(p)
        \/ StepBicepCurl(p)
        \/ StepLateralRaise(p)
        \/ StepBackPosture(p)
        \/ StepSquat(p)
        \/ FinishFrame(p)

Spec == Init /\ [][Next]_vars

(***************************************************************************)
(* SpecRules: evaluate_frame applied to one array of Frames.               *)
(***************************************************************************)
InitRules ==
    /\ \E f \in Frames : arr = (1 :> f) /\ lm = (1 :> f)
    /\ pc  = (1 :> "call")
    /\ res = (1 :> None)
    /\ IdleAngle /\ IdleSmooth

ApplyEvaluateFrame ==
    /\ pc[1] = "call"
    /\ res' = (1 :> evaluate_frame(lm[1]))
    /\ pc'  = (1 :> IF Raised(evaluate_frame(lm[1])) THEN "raised" ELSE "returned")
    /\ UNCHANGED <<arr, lm, in_a, in_b, in_c, out_ang,
                   in_values, in_window, out_smooth>>

NextRules == ApplyEvaluateFrame

SpecRules == InitRules /\ [][NextRules]_vars

(***************************************************************************)
(* SpecAngle: _angle_between applied to three points of the grid.          *)
(***************************************************************************)
InitAngle ==
    /\ in_a \in Points /\ in_b \in Points /\ in_c \in Points
    /\ out_ang = None
    /\ pc = (1 :> "call")
    /\ IdleFrames /\ IdleSmooth

ApplyAngleBetween ==
    /\ pc[1] = "call"
    /\ out_ang' = _angle_between(in_a, in_b, in_c)
    /\ pc' = (1 :> "returned")
    /\ UNCHANGED <<arr, lm, res, in_a, in_b, in_c,
                   in_values, in_window, out_smooth>>

NextAngle == ApplyAngleBetween

SpecAngle == InitAngle /\ [][NextAngle]_vars

(***************************************************************************)
(* SpecSmooth: smooth_series applied to a series and a window.             *)
(***************************************************************************)
InitSmooth ==
    /\ \E n \in 0..MaxLen : in_values \in [0..(n - 1) -> 0..MaxValue]
    /\ in_window \in 0..MaxWindow
    /\ out_smooth = None
    /\ pc = (1 :> "call")
    /\ IdleFrames /\ IdleAngle

ApplySmoothSeries ==
    /\ pc[1] = "call"
    /\ out_smooth' = smooth_series(in_values, in_window)
    /\ pc' = (1 :> IF Size(in_values) = 0 /\ in_window > 1 THEN "raised" ELSE "returned")
    /\ UNCHANGED <<arr, lm, res, in_a, in_b, in_c, out_ang,
                   in_values, in_window>>

NextSmooth == ApplySmoothSeries

SpecSmooth == InitSmooth /\ [][NextSmooth]_vars

(***************************************************************************)
(* Properties.                                                             *)
(***************************************************************************)
RuleNames == {"bicep_curl", "lateral_raise", "back_posture", "squat"}

\* what the rule called `name` computes on its own: its dict, or its exception
RuleAlone(name, frame_landmarks) ==
    CASE name = "bicep_curl"    -> evaluate_bicep_curl(frame_landmarks)
      [] name = "lateral_raise" -> evaluate_lateral_raise(frame_landmarks)
      [] name = "back_posture"  -> evaluate_back_posture(frame_landmarks)
      [] name = "squat"         -> evaluate_squat(frame_landmarks)

IsErrorEntry(entry) == "error" \in DOMAIN entry
IsVerdict(entry)    == "ok" \in DOMAIN entry \/ {"left", "right"} \subseteq DOMAIN entry

Returned == pc[1] = "returned"
Finished == pc[1] # "call"

\* C1: whatever the input, evaluate_frame returns, and in its result a rule
\* whose computation failed has an error entry under its name while every
\* other rule has its normally computed verdict.
C1_RuleFailuresAreIsolated ==
    Finished =>
        /\ Returned
        /\ \A name \in RuleNames :
              /\ name \in DOMAIN res[1]
              /\ IF Raised(RuleAlone(name, lm[1]))
                 THEN IsErrorEntry(res[1][name])
                 ELSE res[1][name] = RuleAlone(name, lm[1])[name]

\* C2: for a frame whose row count is not 33, evaluate_frame does not raise
\* and no rule computes a verdict: every rule's entry is an error entry.
C2_WrongSizeIsRejected ==
    (Finished /\ Size(lm[1]) # 33) =>
        /\ Returned
        /\ \A name \in RuleNames :
              name \in DOMAIN res[1] /\ IsErrorEntry(res[1][name])

\* C3: on the all-zero frame of 33 rows evaluate_frame does not raise, and its
\* result has an entry for each of the four rules, a verdict or an error entry.
C3_ZeroFrameEvaluates ==
    (Finished /\ lm[1] = np_zeros(33)) =>
        /\ Returned
        /\ DOMAIN res[1] = RuleNames
        /\ \A name \in RuleNames :
              IsVerdict(res[1][name]) \/ IsErrorEntry(res[1][name])

C3_Witness == Returned /\ lm[1] = np_zeros(33) /\ DOMAIN res[1] = RuleNames

\* C6: on a frame of 33 rows, a side of the squat is ok exactly when its knee
\* angle is <= 100, the absolute knee-minus-ankle x offset is <= 0.12 (3 units)
\* and the torso tilt is <= 25; the aggregate is ok exactly when both sides are.
C6_SquatVerdict ==
    (Returned /\ Size(lm[1]) = 33) =>
        LET f     == lm[1]
            sq    == res[1]["squat"]
            tilt  == TorsoTilt(XY(f, 11), XY(f, 12), XY(f, 23), XY(f, 24))
            kneeL == _angle_between(XY(f, 23), XY(f, 25), XY(f, 27))
            kneeR == _angle_between(XY(f, 24), XY(f, 26), XY(f, 28))
            overL == f[25][1] - f[27][1]
            overR == f[26][1] - f[28][1]
        IN  /\ sq.left.ok  <=> (kneeL.cl <= 100 /\ Abs(overL) <= 3 /\ tilt.cl <= 25)
            /\ sq.right.ok <=> (kneeR.cl <= 100 /\ Abs(overR) <= 3 /\ tilt.cl <= 25)
            /\ sq.ok <=> (sq.left.ok /\ sq.right.ok)
            /\ sq.left.knee_angle = kneeL /\ sq.right.knee_angle = kneeR
            /\ sq.left.knee_over = overL /\ sq.right.knee_over = overR
            /\ sq.torso_tilt = tilt

\* a deep left knee exactly at the offset tolerance passes, the right side fails
C6_Witness ==
    /\ Returned /\ Size(lm[1]) = 33
    /\ res[1]["squat"].left.ok /\ ~res[1]["squat"].right.ok
    /\ ~res[1]["squat"].ok
    /\ Abs(res[1]["squat"].left.knee_over) = 3
    /\ res[1]["squat"].torso_tilt.fl > 12

C8_EvaluationIsIndependent ==
    \A p \in Callers :
        /\ pc[p] \in {"bicep", "lateral", "back", "squat", "done"} => lm[p] = arr[p]
        /\ pc[p] = "done" => res[p] = evaluate_frame(arr[p])

\* two evaluations of different frames overlap, one finished, one in progress
C8_Witness ==
    /\ pc[1] = "done" /\ pc[2] \in {"lateral", "back", "squat"}
    /\ arr[1] # arr[2]
    /\ arr[1] # np_zeros(33) /\ arr[2] # np_zeros(33)

\* C9: _angle_between returns an angle whatever the three points are, and the
\* angle is exactly 0.0 when a = b or c = b.
C9_DegenerateAngleIsZero ==
    Returned =>
        /\ out_ang.fl \in 0..180 /\ out_ang.cl \in 0..180
        /\ (in_a = in_b \/ in_c = in_b) => out_ang = Zero

C9_Witness == Returned /\ in_c = in_b /\ in_a # in_b /\ out_ang = Zero

\* C10: when no pose is detected the extractor yields the all-zero frame of 33
\* rows, and for it back_posture and squat (left, right, aggregate) are ok
\* while bicep_curl and lateral_raise are not ok on either side.
C10_NoPoseVerdicts ==
    \A p \in Callers :
        (pc[p] = "done" /\ arr[p] = ExtractedArray([pose_landmarks |-> FALSE])) =>
            /\ Size(lm[p]) = 33
            /\ \A i \in DOMAIN lm[p] : lm[p][i] = <<0, 0, 0>>
            /\ res[p]["back_posture"].ok
            /\ res[p]["squat"].left.ok /\ res[p]["squat"].right.ok
            /\ res[p]["squat"].ok
            /\ ~res[p]["bicep_curl"].left.ok /\ ~res[p]["bicep_curl"].right.ok
            /\ ~res[p]["lateral_raise"].left.ok /\ ~res[p]["lateral_raise"].right.ok

C10_Witness ==
    /\ pc[1] = "done" /\ arr[1] = np_zeros(33)
    /\ res[1]["squat"].ok /\ res[1]["back_posture"].ok

\* the values of x at the positions lo..hi, positions outside x counting as zero
RECURSIVE WindowSum(_, _, _)
WindowSum(x, lo, hi) ==
    IF lo > hi THEN 0
    ELSE (IF lo \in DOMAIN x THEN x[lo] ELSE 0) + WindowSum(x, lo + 1, hi)

\* C4: for every series and every window >= 1, larger than the series or not,
\* the series smooth_series returns is as long as its input.
C4_SmoothKeepsLength ==
    (Returned /\ in_window >= 1) => Size(out_smooth) = Size(in_values)

\* C5: for every window > 1, odd or even, the output at each position i of the
\* input is the sum of the input over a window of that size placed
\* symmetrically around i (i-h..i+h, 2h+1 = window), zero outside, over window.
C5_SymmetricWindowMean ==
    (Finished /\ in_window > 1) =>
        \A i \in DOMAIN in_values :
              /\ Returned /\ i \in DOMAIN out_smooth
              /\ \E h \in 0..in_window :
                    /\ 2 * h + 1 = in_window
                    /\ out_smooth[i] = [num |-> WindowSum(in_values, i - h, i + h),
                                        den |-> in_window]

\* C5 as amended: for window > 1 and a non-empty input of length n, the output
\* has max(n, window) entries and entry i is the sum of the input over the
\* positions i+s-(window-1) .. i+s, zero outside, over window, where
\* s = (min(window, n) - 1) div 2.  The window is the symmetric i-h..i+h only
\* for window = 2h+1 <= n; an even window <= n covers i-window/2 .. i+window/2-1.
C5_CentredWindowMean ==
    (Finished /\ in_window > 1 /\ Size(in_values) > 0) =>
        LET n == Size(in_values)
            s == (Min(in_window, n) - 1) \div 2
        IN  /\ Returned
            /\ DOMAIN out_smooth = 0..(Max(n, in_window) - 1)
            /\ \A i \in DOMAIN out_smooth :
                  out_smooth[i] =
                      [num |-> WindowSum(in_values, i + s - (in_window - 1), i + s),
                       den |-> in_window]
            /\ (in_window <= n /\ in_window % 2 = 1) =>
                  \A i \in DOMAIN in_values :
                      out_smooth[i].num =
                          WindowSum(in_values, i - in_window \div 2, i + in_window \div 2)
            /\ (in_window <= n /\ in_window % 2 = 0) =>
                  \A i \in DOMAIN in_values :
                      out_smooth[i].num =
                          WindowSum(in_values, i - in_window \div 2,
                                    i + in_window \div 2 - 1)

\* an even window on a longer series: the first output holds only the first value
C5_Witness ==
    /\ Returned /\ in_window = 2 /\ Size(in_values) = 3
    /\ in_values[0] = 1 /\ in_values[1] = 2 /\ in_values[2] = 0
    /\ out_smooth[0].num = 1 /\ out_smooth[1].num = 3 /\ out_smooth[2].num = 2

=============================================================================
